---- MODULE Spec2Model ----
(***************************************************************************)
(* Gravity simulation of src/javascript.js: elements become physics bodies *)
(* when clicked (activateElement), every animation frame integrates them   *)
(* (step), and every click applies a radial impulse to all bodies.         *)
(*                                                                         *)
(* Numbers.  The program computes in IEEE doubles.  Here every length and  *)
(* every velocity is a fixed-point number with SCALE units per px (or per  *)
(* px/s), and each product or quotient is rounded to the nearest unit      *)
(* (RoundDiv), as a double operation rounds to the nearest double.  Times  *)
(* are whole milliseconds.                                                 *)
(***************************************************************************)
EXTENDS Integers, Sequences, FiniteSets, TLC

VARIABLES
    bodies,      \* const bodies = []            (line 9), in activation order
    activeSet,   \* const activeSet = new WeakSet (line 10)
    style,       \* el.style of every element that has inline styles set
    last,        \* let last = performance.now() (line 15), ms
    pageWidth,   \* max(documentElement.scrollWidth, innerWidth), units
    pageHeight,  \* max(documentElement.scrollHeight, innerHeight), units
    scrollX,     \* window.scrollX, units
    scrollY,     \* window.scrollY, units
    op,          \* the callback that ran last: "init", "step", "click", "env"
    now,         \* argument of the last step(now) call, ms
    dt,          \* local dt of the last step call, ms
    e,           \* the event of the last click: [target, clientX, clientY]
    ret,         \* what activateElement returned in the last click
    nTicks,      \* frames run so far
    nEvents      \* callbacks and environment events so far

vars == <<bodies, activeSet, style, last, pageWidth, pageHeight, scrollX,
          scrollY, op, now, dt, e, ret, nTicks, nEvents>>

---------------------------------------------------------------------------
(* Bounds of the model *)

\* the runs hold at most MaxEvents frames, clicks, scrolls and resizes
MaxEvents == 4

---------------------------------------------------------------------------
(* Fixed-point arithmetic *)

SCALE == 10 * 10

Px(n) == n * SCALE

Abs(a) == IF a < 0 THEN -a ELSE a

Min(a, b) == IF a < b THEN a ELSE b

\* a / b rounded to the nearest integer, halves away from zero (b > 0)
RoundDiv(a, b) ==
    IF a >= 0 THEN (2 * a + b) \div (2 * b)
              ELSE -((2 * (-a) + b) \div (2 * b))

RECURSIVE SqrtIter(_, _, _)
\* the largest r in lo..hi with r * r <= n
SqrtIter(n, lo, hi) ==
    IF lo >= hi THEN lo
    ELSE LET mid == (lo + hi + 1) \div 2
         IN  IF mid * mid <= n THEN SqrtIter(n, mid, hi)
                               ELSE SqrtIter(n, lo, mid - 1)

\* Math.sqrt, rounded to the nearest unit
Sqrt(n) ==
    LET r == SqrtIter(n, 0, Min(n, 46340))
    IN  IF n - r * r > r THEN r + 1 ELSE r

\* Math.round: the nearest integer, halves up; the result again in units
MathRound(a) == ((a + SCALE \div 2) \div SCALE) * SCALE

---------------------------------------------------------------------------
(* Program constants *)

GRAVITY == 2000
MAX_DT_MS == 50
INITIAL_VY == 30
REST_VY == 30
FORCE_CAP == 3000
FORCE_SCALE == 60000
FORCE_SOFTEN == 20

\* v * BOUNCE with BOUNCE = 0.6
TimesBounce(v) == RoundDiv(v * 6, 10)

\* v * 0.8, the friction on the ground
TimesFriction(v) == RoundDiv(v * 8, 10)

excludeTags == {"HTML", "HEAD", "META", "TITLE", "LINK", "SCRIPT", "STYLE", "BODY"}

---------------------------------------------------------------------------
(* The document: the elements, and what the browser reports about them *)

Null == "null"

Elements == {"html", "body", "box", "wide", "hid", "inv", "clear", "thin", "flat"}

tagName(el) ==
    CASE el = "html" -> "HTML"
      [] el = "body" -> "BODY"
      [] OTHER -> "DIV"

parentElement(el) ==
    CASE el = "html" -> Null
      [] el = "body" -> "html"
      [] OTHER -> "body"

\* window.getComputedStyle(el)
getComputedStyle(el) ==
    [display    |-> IF el = "hid" THEN "none" ELSE "block",
     visibility |-> IF el = "inv" THEN "hidden" ELSE "visible",
     opacity    |-> IF el = "clear" THEN "0" ELSE "1"]

\* where the layout put the element at load, in page coordinates (units)
Layout(el) ==
    CASE el = "box"  -> [left |-> Px(150), top |-> Px(248), width |-> Px(51), height |-> Px(50)]
      [] el = "wide" -> [left |-> Px(0), top |-> Px(100), width |-> Px(250), height |-> Px(20)]
      [] el = "thin" -> [left |-> Px(30), top |-> Px(30), width |-> 0, height |-> Px(10)]
      [] el = "flat" -> [left |-> Px(30), top |-> Px(60), width |-> Px(10), height |-> 0]
      [] el = "hid"  -> [left |-> 0, top |-> 0, width |-> 0, height |-> 0]
      [] el = "html" -> [left |-> 0, top |-> 0, width |-> Px(200), height |-> Px(250)]
      [] OTHER       -> [left |-> Px(10), top |-> Px(10), width |-> Px(40), height |-> Px(20)]

\* el.getBoundingClientRect(): the box relative to the viewport
getBoundingClientRect(el) ==
    [left   |-> Layout(el).left - scrollX,
     top    |-> Layout(el).top - scrollY,
     width  |-> Layout(el).width,
     height |-> Layout(el).height]

\* an inline length: the string n + 'px', n in units
PxStr(n) == <<n, "px">>

\* no element has inline styles when the page has loaded
NoStyle == [el \in {} |-> <<>>]

PageWidths == {Px(200), Px(300)}
PageHeights == {Px(300)}
Scrolls == {<<0, 0>>, <<Px(100), Px(40)>>}
StartTimes == {1000}
\* ms between two frames; the first frame's timestamp may precede `last`
Deltas == {16, 80}
FirstDeltas == {-5}
\* where a click may land, viewport coordinates (units)
ClickPoints == {<<Px(175), Px(273)>>, <<Px(125), Px(110)>>, <<Px(200), Px(273)>>}
\* the elements a click may hit
Targets == {"body", "box", "wide", "flat"}

---------------------------------------------------------------------------
(* activateElement (lines 54-87) *)

Rejected == [ret |-> "null", bodies |-> bodies, activeSet |-> activeSet, style |-> style]

\* lines 63-86: the element leaves the flow and its body joins the simulation
Activated(el) ==
    LET rect == getBoundingClientRect(el)
        body == [el |-> el,
                 x  |-> rect.left + scrollX,
                 y  |-> rect.top + scrollY,
                 vx |-> 0,
                 vy |-> Px(INITIAL_VY),
                 w  |-> rect.width,
                 h  |-> rect.height]
    IN  [ret       |-> "body",
         bodies    |-> Append(bodies, body),
         activeSet |-> activeSet \cup {el},
         style     |-> [x \in DOMAIN style \cup {el} |->
                          IF x = el
                          THEN [boxSizing  |-> "border-box",
                                position   |-> "absolute",
                                left       |-> PxStr(rect.left + scrollX),
                                top        |-> PxStr(rect.top + scrollY),
                                width      |-> PxStr(rect.width),
                                height     |-> PxStr(rect.height),
                                margin     |-> "0",
                                transition |-> "none",
                                willChange |-> "left, top"]
                          ELSE style[x]]]

\* lines 58 and 61: the element is not rendered, or has no area
NotRendered(el) ==
    LET cs == getComputedStyle(el)
        rect == getBoundingClientRect(el)
    IN  \/ cs.display = "none" \/ cs.visibility = "hidden" \/ cs.opacity = "0"
        \/ rect.width = 0 \/ rect.height = 0

activateElement_NoActiveCheck(el) ==
    IF el = Null THEN Rejected
    ELSE IF tagName(el) \in excludeTags THEN Rejected
    ELSE IF NotRendered(el) THEN Rejected
    ELSE Activated(el)

activateElement_NoSizeCheck(el) ==
    IF el = Null \/ el \in activeSet THEN Rejected
    ELSE IF tagName(el) \in excludeTags THEN Rejected
    ELSE LET cs == getComputedStyle(el) IN
    IF cs.display = "none" \/ cs.visibility = "hidden" \/ cs.opacity = "0" THEN Rejected
    ELSE Activated(el)

activateElement(el) ==
    IF el = Null \/ el \in activeSet THEN Rejected
    ELSE IF tagName(el) \in excludeTags THEN Rejected
    ELSE IF NotRendered(el) THEN Rejected
    ELSE Activated(el)

---------------------------------------------------------------------------
(* The click handler (lines 90-108) *)

RECURSIVE Closest(_)
\* while (el && excludeTags.has(el.tagName)) el = el.parentElement
Closest(el) ==
    IF el # Null /\ tagName(el) \in excludeTags THEN Closest(parentElement(el))
    ELSE el

Dist_FloorOfOne(dx, dy) ==
    LET d == Sqrt(dx * dx + dy * dy)
    IN  IF d < Px(1) THEN Px(1) ELSE d

\* Math.sqrt(dx * dx + dy * dy) || 1
Dist(dx, dy) ==
    LET d == Sqrt(dx * dx + dy * dy)
    IN  IF d = 0 THEN Px(1) ELSE d

\* Math.min(3000, 60000 / (dist + 20))
Force(dist) ==
    Min(FORCE_CAP, RoundDiv(FORCE_SCALE * SCALE, dist + Px(FORCE_SOFTEN)))

\* (d / dist) * (force / 1000), a velocity in units
Push(d, dist) == RoundDiv(d * Force(dist), dist * (1000 \div SCALE))

Impulse(b, clientX, clientY) ==
    LET cx == b.x + RoundDiv(b.w, 2)
        cy == b.y + RoundDiv(b.h, 2)
        dx == cx - clientX
        dy == cy - clientY
        dist == Dist(dx, dy)
    IN  [b EXCEPT !.vx = b.vx + Push(dx, dist),
                  !.vy = b.vy + Push(dy, dist)]

ImpulseAll(bs, ev) ==
    [i \in 1..Len(bs) |-> Impulse(bs[i], ev.clientX, ev.clientY)]

clickHandler_ImpulseFirst(ev) ==
    LET el == Closest(ev.target)
        act == IF el # Null THEN activateElement(el)
               ELSE [Rejected EXCEPT !.ret = "none"]
    IN  [act EXCEPT !.bodies =
            ImpulseAll(bodies, ev) \o SubSeq(act.bodies, Len(bodies) + 1, Len(act.bodies))]

\* the whole handler: activation first, then the impulse over all bodies
clickHandler(ev) ==
    LET el == Closest(ev.target)
        act == IF el # Null THEN activateElement(el)
               ELSE [Rejected EXCEPT !.ret = "none"]
    IN  [act EXCEPT !.bodies = ImpulseAll(act.bodies, ev)]

Click ==
    /\ nEvents < MaxEvents
    /\ \E t \in Targets, p \in ClickPoints :
         LET ev == [target |-> t, clientX |-> p[1], clientY |-> p[2]]
             r == clickHandler(ev)
         IN  /\ e' = ev
             /\ bodies' = r.bodies
             /\ activeSet' = r.activeSet
             /\ style' = r.style
             /\ ret' = r.ret
    /\ op' = "click"
    /\ nEvents' = nEvents + 1
    /\ UNCHANGED <<last, pageWidth, pageHeight, scrollX, scrollY, now, dt, nTicks>>

---------------------------------------------------------------------------
(* step (lines 17-49) *)

\* Math.min(0.05, (now - last) / 1000), in ms
TickDt(n, l) == Min(MAX_DT_MS, n - l)

\* lines 26-28
Integrate(b, d) ==
    LET vy == b.vy + RoundDiv(Px(GRAVITY) * d, 1000)
    IN  [b EXCEPT !.vy = vy,
                  !.x = b.x + RoundDiv(b.vx * d, 1000),
                  !.y = b.y + RoundDiv(vy * d, 1000)]

FloorCollision_NoFriction(b, H) ==
    IF b.y + b.h > H
    THEN LET vy == TimesBounce(-b.vy)
         IN  [b EXCEPT !.y = H - b.h,
                       !.vy = IF Abs(vy) < Px(REST_VY) THEN 0 ELSE vy]
    ELSE b

FloorCollision_NoSnap(b, H) ==
    IF b.y + b.h > H
    THEN [b EXCEPT !.y = H - b.h, !.vy = TimesBounce(-b.vy), !.vx = TimesFriction(b.vx)]
    ELSE b

\* lines 31-37
FloorCollision(b, H) ==
    IF b.y + b.h > H
    THEN LET vy == TimesBounce(-b.vy)
         IN  [b EXCEPT !.y = H - b.h,
                       !.vy = IF Abs(vy) < Px(REST_VY) THEN 0 ELSE vy,
                       !.vx = TimesFriction(b.vx)]
    ELSE b

LeftWall_NoReflect(b) ==
    IF b.x < 0 THEN [b EXCEPT !.x = 0] ELSE b

\* line 40
LeftWall(b) ==
    IF b.x < 0 THEN [b EXCEPT !.x = 0, !.vx = TimesBounce(-b.vx)] ELSE b

RightWall_NoClamp(b, W) ==
    IF b.x + b.w > W THEN [b EXCEPT !.vx = TimesBounce(-b.vx)] ELSE b

\* line 41
RightWall(b, W) ==
    IF b.x + b.w > W THEN [b EXCEPT !.x = W - b.w, !.vx = TimesBounce(-b.vx)] ELSE b

stepBody(b, d, W, H) ==
    RightWall(LeftWall(FloorCollision(Integrate(b, d), H)), W)

\* lines 44-45, for every body
WriteBack(st, bs) ==
    [el \in DOMAIN st |->
        IF \E i \in 1..Len(bs) : bs[i].el = el
        THEN LET b == bs[CHOOSE i \in 1..Len(bs) : bs[i].el = el]
             IN  [st[el] EXCEPT !.left = PxStr(MathRound(b.x)),
                                !.top = PxStr(MathRound(b.y))]
        ELSE st[el]]

step(n) ==
    /\ now' = n
    /\ dt' = TickDt(n, last)
    /\ last' = n
    /\ bodies' = [i \in 1..Len(bodies) |-> stepBody(bodies[i], dt', pageWidth, pageHeight)]
    /\ style' = WriteBack(style, bodies')
    /\ op' = "step"
    /\ nTicks' = nTicks + 1
    /\ nEvents' = nEvents + 1
    /\ UNCHANGED <<activeSet, pageWidth, pageHeight, scrollX, scrollY, e, ret>>

\* requestAnimationFrame(step): the browser calls step at the next frame,
\* D ms after the frame before
Frame(D) ==
    /\ nEvents < MaxEvents
    /\ \E d \in D \cup (IF nTicks = 0 THEN FirstDeltas ELSE {}) : step(last + d)

Tick == Frame(Deltas)

---------------------------------------------------------------------------
(* The environment: the user scrolls, the page changes size *)

Scroll ==
    /\ nEvents < MaxEvents
    /\ \E s \in Scrolls :
         /\ <<scrollX, scrollY>> # s
         /\ scrollX' = s[1]
         /\ scrollY' = s[2]
    /\ op' = "env"
    /\ nEvents' = nEvents + 1
    /\ UNCHANGED <<bodies, activeSet, style, last, pageWidth, pageHeight, now, dt, e, ret, nTicks>>

Resize ==
    /\ nEvents < MaxEvents
    /\ \E W \in PageWidths, H \in PageHeights :
         /\ <<pageWidth, pageHeight>> # <<W, H>>
         /\ pageWidth' = W
         /\ pageHeight' = H
    /\ op' = "env"
    /\ nEvents' = nEvents + 1
    /\ UNCHANGED <<bodies, activeSet, style, last, scrollX, scrollY, now, dt, e, ret, nTicks>>

---------------------------------------------------------------------------
(* The program from DOMContentLoaded on *)

NoEvent == [target |-> Null, clientX |-> 0, clientY |-> 0]

Init ==
    /\ bodies = <<>>
    /\ activeSet = {}
    /\ style = NoStyle
    /\ last \in StartTimes
    /\ pageWidth \in PageWidths
    /\ pageHeight \in PageHeights
    /\ scrollX = 0
    /\ scrollY = 0
    /\ op = "init"
    /\ now = 0
    /\ dt = 0
    /\ e = NoEvent
    /\ ret = "none"
    /\ nTicks = 0
    /\ nEvents = 0

Next == Tick \/ Click \/ Scroll \/ Resize

Spec == Init /\ [][Next]_vars

---------------------------------------------------------------------------
(* step alone, as a function of the body it is given: one body, caught at  *)
(* any moment of a run, then frames only                                   *)

SampleX == {0, Px(125), Px(250)}
SampleY == {Px(100), Px(550), Px(550) + Px(35) \div 2}
SampleVx == {-Px(3), 0, Px(3)}
SampleVy == {-Px(60), 0, Px(150)}
SamplePageWidths == {Px(40), Px(300)}
SamplePageHeights == {Px(600)}

ActiveStyle(b) ==
    [boxSizing |-> "border-box", position |-> "absolute",
     left |-> PxStr(MathRound(b.x)), top |-> PxStr(MathRound(b.y)),
     width |-> PxStr(b.w), height |-> PxStr(b.h),
     margin |-> "0", transition |-> "none", willChange |-> "left, top"]

InitStep ==
    /\ \E x \in SampleX, y \in SampleY, vx \in SampleVx, vy \in SampleVy :
         bodies = << [el |-> "box", x |-> x, y |-> y, vx |-> vx, vy |-> vy,
                      w |-> Px(50), h |-> Px(50)] >>
    /\ activeSet = {"box"}
    /\ style = [el \in {"box"} |-> ActiveStyle(bodies[1])]
    /\ last \in StartTimes
    /\ pageWidth \in SamplePageWidths
    /\ pageHeight \in SamplePageHeights
    /\ scrollX = 0
    /\ scrollY = 0
    /\ op = "init"
    /\ now = 0
    /\ dt = 0
    /\ e = NoEvent
    /\ ret = "none"
    /\ nTicks = 0
    /\ nEvents = 0

SampleDeltas == {4, 16, 24, 25, 80}

TickSample == Frame(SampleDeltas)

NextStep == TickSample

SpecStep == InitStep /\ [][NextStep]_vars

---------------------------------------------------------------------------
(* Properties *)

Bodies == 1..Len(bodies)

\* the body as it was before the impulse pass of the click that just ran:
\* the one the click found, or the one it just activated
BeforeImpulse(i) ==
    IF i <= Len(bodies) THEN bodies[i]
    ELSE [bodies'[i] EXCEPT !.vx = 0, !.vy = Px(INITIAL_VY)]

\* C1 as claimed: after every step every body lies inside the page,
\* whatever its size
C1_InsidePage ==
    op = "step" =>
        \A i \in Bodies :
            /\ bodies[i].y + bodies[i].h <= pageHeight
            /\ 0 <= bodies[i].x
            /\ bodies[i].x + bodies[i].w <= pageWidth

\* C1 as amended: after every step every body is above the floor and left
\* of the right wall, and right of the left wall when it fits the page
C1_InsidePageWhenItFits ==
    op = "step" =>
        \A i \in Bodies :
            /\ bodies[i].y + bodies[i].h <= pageHeight
            /\ bodies[i].x + bodies[i].w <= pageWidth
            /\ bodies[i].w <= pageWidth => 0 <= bodies[i].x

\* a step has just put a body that fits the page back from behind a wall
C1_Witness ==
    /\ op = "step"
    /\ \E i \in Bodies :
        /\ bodies[i].w <= pageWidth
        /\ bodies[i].vx # 0
        /\ bodies[i].x = 0 \/ bodies[i].x + bodies[i].w = pageWidth

\* C2: one body per activated element, and activating an activated element
\* again returns null and changes neither the bodies nor the styles
C2_ActivationIdempotent ==
    /\ Len(bodies) = Cardinality(activeSet)
    /\ \A el \in Elements :
        Cardinality({i \in Bodies : bodies[i].el = el}) = IF el \in activeSet THEN 1 ELSE 0
    /\ \A el \in activeSet :
        LET r == activateElement(el)
        IN  r.ret = "null" /\ r.bodies = bodies /\ r.activeSet = activeSet /\ r.style = style

\* a click has just tried to activate an element that was already a body
C2_Witness ==
    /\ op = "click"
    /\ ret = "null"
    /\ Closest(e.target) \in activeSet

\* the elements activateElement has to reject
Rejectable(el) ==
    \/ el = Null
    \/ tagName(el) \in excludeTags
    \/ getComputedStyle(el).display = "none"
    \/ getComputedStyle(el).visibility = "hidden"
    \/ getComputedStyle(el).opacity = "0"
    \/ getBoundingClientRect(el).width = 0
    \/ getBoundingClientRect(el).height = 0

\* C3: activateElement on null, an excluded tag, an element not rendered or
\* one without area returns null and changes nothing; so such an element
\* never has a body, is never in the activated set and gets no inline style
C3_RejectsWithoutEffect ==
    \A el \in Elements \cup {Null} :
        Rejectable(el) =>
            /\ LET r == activateElement(el)
               IN  r.ret = "null" /\ r.bodies = bodies /\ r.activeSet = activeSet /\ r.style = style
            /\ el \notin activeSet
            /\ \A i \in Bodies : bodies[i].el # el
            /\ el \notin DOMAIN style

\* a click has just been refused its activation for the element's own sake
C3_Witness ==
    /\ op = "click"
    /\ ret = "null"
    /\ Rejectable(Closest(e.target))
    /\ Len(bodies) > 0

\* C4: a click that activates an element appends its body before the
\* impulse pass, so the new body carries that click's impulse on top of
\* (0, 30); and no frame runs within the click
C4_ActivationBeforeImpulse ==
    [][ (op' = "click" /\ ret' = "body") =>
            LET n == Len(bodies')
                b == bodies'[n]
            IN  /\ n = Len(bodies) + 1
                /\ b.el = Closest(e'.target)
                /\ b = Impulse(BeforeImpulse(n), e'.clientX, e'.clientY)
                /\ nTicks' = nTicks /\ last' = last ]_vars

\* a click has just activated an element and pushed it
C4_Witness ==
    /\ op = "click"
    /\ ret = "body"
    /\ bodies[Len(bodies)].vx # 0
    /\ bodies[Len(bodies)].vy # Px(INITIAL_VY)

\* C5 as claimed: the dt of every step lies in [0, MAX_DT], and last is the
\* step's timestamp afterwards
C5_DtClamped ==
    op = "step" => 0 <= dt /\ dt <= MAX_DT_MS /\ last = now

\* C6 as claimed: a click whose point, taken in page coordinates, lies
\* strictly left of a body's center raises that body's vx, and one strictly
\* right of it lowers it
C6_PushedAway ==
    [][ op' = "click" =>
            \A i \in 1..Len(bodies') :
                LET b == BeforeImpulse(i)
                    pageX == e'.clientX + scrollX
                IN  /\ 2 * pageX < 2 * b.x + b.w => bodies'[i].vx > b.vx
                    /\ 2 * pageX > 2 * b.x + b.w => bodies'[i].vx < b.vx ]_vars

\* the distance from a body's center to the point of the last click
CenterDistance(b) ==
    LET dx == b.x + RoundDiv(b.w, 2) - e.clientX
        dy == b.y + RoundDiv(b.h, 2) - e.clientY
    IN  Sqrt(dx * dx + dy * dy)

\* the velocity of body b after an impulse from (ex, ey) that takes the
\* distance to be dist
PushedWith(b, ex, ey, dist) ==
    LET dx == b.x + RoundDiv(b.w, 2) - ex
        dy == b.y + RoundDiv(b.h, 2) - ey
    IN  <<b.vx + Push(dx, dist), b.vy + Push(dy, dist)>>

\* C7 as claimed: the impulse takes the distance to be max(1, sqrt(dx^2 + dy^2))
C7_DistanceFloorOfOne ==
    [][ op' = "click" =>
            \A i \in 1..Len(bodies') :
                LET b == BeforeImpulse(i)
                    dx == b.x + RoundDiv(b.w, 2) - e'.clientX
                    dy == b.y + RoundDiv(b.h, 2) - e'.clientY
                    s == Sqrt(dx * dx + dy * dy)
                    dist == IF s < Px(1) THEN Px(1) ELSE s
                IN  <<bodies'[i].vx, bodies'[i].vy>> = PushedWith(b, e'.clientX, e'.clientY, dist) ]_vars

\* C7 as amended: the impulse takes the distance to be sqrt(dx^2 + dy^2),
\* and 1 only when that is 0: a point at the center leaves the velocity as
\* it was, a point nearer than 1 is pushed with its own distance
C7_DistanceOneOnlyAtCenter ==
    [][ op' = "click" =>
            \A i \in 1..Len(bodies') :
                LET b == BeforeImpulse(i)
                    dx == b.x + RoundDiv(b.w, 2) - e'.clientX
                    dy == b.y + RoundDiv(b.h, 2) - e'.clientY
                    s == Sqrt(dx * dx + dy * dy)
                IN  /\ s = 0 => bodies'[i].vx = b.vx /\ bodies'[i].vy = b.vy
                    /\ s > 0 => <<bodies'[i].vx, bodies'[i].vy>> = PushedWith(b, e'.clientX, e'.clientY, s) ]_vars

\* a click has just landed nearer than 1 px to a body's center, and not on it
C7_Witness ==
    /\ op = "click"
    /\ \E i \in Bodies : CenterDistance(bodies[i]) > 0 /\ CenterDistance(bodies[i]) < Px(1)

\* C8: a body that the integration carried below the floor, with vertical
\* velocity v after gravity, ends the step on the floor with vy = -v * 0.6,
\* or 0 when that is slower than 30, and with vx * 0.8 handed to the walls;
\* a body still above the floor keeps what the integration gave it
C8_FloorCollision ==
    [][ op' = "step" =>
            \A i \in Bodies :
                LET b == bodies[i]
                    a == bodies'[i]
                    v == b.vy + RoundDiv(Px(GRAVITY) * dt', 1000)
                    xi == b.x + RoundDiv(b.vx * dt', 1000)
                    yi == b.y + RoundDiv(v * dt', 1000)
                    up == RoundDiv(-v * 6, 10)
                    walls(vx) == RightWall(LeftWall([b EXCEPT !.x = xi, !.vx = vx]), pageWidth).vx
                IN  /\ yi + b.h > pageHeight =>
                        /\ a.y = pageHeight - b.h
                        /\ a.vy = IF Abs(up) < Px(30) THEN 0 ELSE up
                        /\ a.vx = walls(RoundDiv(b.vx * 8, 10))
                    /\ yi + b.h <= pageHeight =>
                        /\ a.y = yi
                        /\ a.vy = v
                        /\ a.vx = walls(b.vx)
                    /\ (yi = Px(580) /\ b.h = Px(50) /\ v = Px(250) /\ pageHeight = Px(600)) =>
                        a.y = Px(550) /\ a.vy = -Px(150) ]_vars

\* a step has just bounced a body off the floor, as in the example
C8_Witness ==
    /\ op = "step"
    /\ pageHeight = Px(600)
    /\ \E i \in Bodies :
        bodies[i].h = Px(50) /\ bodies[i].y = Px(550) /\ bodies[i].vy = -Px(150)

\* the body between the floor collision and the walls of the step under way
BeforeWalls(b) == FloorCollision(Integrate(b, dt'), pageHeight)

\* C9 as claimed: a body left of the left wall ends the step at x = 0 with
\* its vx turned round and scaled by 0.6, and a body right of the right wall
\* ends it at x = pageWidth - w with its vx turned round and scaled by 0.6
C9_WallClamping ==
    [][ op' = "step" =>
            \A i \in Bodies :
                LET f == BeforeWalls(bodies[i])
                    a == bodies'[i]
                IN  /\ f.x < 0 => a.x = 0 /\ a.vx = RoundDiv(-f.vx * 6, 10)
                    /\ f.x + f.w > pageWidth =>
                        a.x = pageWidth - f.w /\ a.vx = RoundDiv(-f.vx * 6, 10) ]_vars

\* C9 as amended: that holds of a body left of the left wall when the body
\* is no wider than the page, and of a body right of the right wall when it
\* is not also left of the left wall; a body wider than the page and left of
\* the left wall meets both walls, in that order
C9_WallClampingOneWall ==
    [][ op' = "step" =>
            \A i \in Bodies :
                LET f == BeforeWalls(bodies[i])
                    a == bodies'[i]
                    once == RoundDiv(-f.vx * 6, 10)
                IN  /\ (f.x < 0 /\ f.w <= pageWidth) => a.x = 0 /\ a.vx = once
                    /\ (f.x >= 0 /\ f.x + f.w > pageWidth) =>
                        a.x = pageWidth - f.w /\ a.vx = once
                    /\ (f.x < 0 /\ f.w > pageWidth) =>
                        a.x = pageWidth - f.w /\ a.vx = RoundDiv(-once * 6, 10) ]_vars

\* a step has just turned a body that fits the page round at the left wall
C9_Witness ==
    /\ op = "step"
    /\ \E i \in Bodies :
        bodies[i].w <= pageWidth /\ bodies[i].x = 0 /\ bodies[i].vx > 0

AtRest(b) == b.y = pageHeight - b.h /\ b.vy = 0

\* C10 as claimed: a body at rest on the floor is at rest after a step
\* with any dt in (0, 0.05]
C10_RestStays ==
    [][ (op' = "step" /\ 0 < dt' /\ dt' <= MAX_DT_MS) =>
            \A i \in Bodies : AtRest(bodies[i]) => AtRest(bodies'[i]) ]_vars

\* C10 as amended: a body at rest on the floor is at rest after a step
\* with any dt in (0, 0.025)
C10_RestStaysAtShortFrames ==
    [][ (op' = "step" /\ 0 < dt' /\ 2 * dt' < MAX_DT_MS) =>
            \A i \in Bodies : AtRest(bodies[i]) => AtRest(bodies'[i]) ]_vars

\* a second short frame has just left a body at rest on the floor
C10_Witness ==
    /\ op = "step"
    /\ nTicks >= 2
    /\ 0 < dt /\ 2 * dt < MAX_DT_MS
    /\ \E i \in Bodies : AtRest(bodies[i])

====
